---- MODULE Spec2Model ----
(***************************************************************************)
(* A model of the pool table of src/src/main.rs: the PoolTable registry of *)
(* body handles (white, eight, red, yellow, dropped), the nphysics world   *)
(* it drives (bodies, activity, velocities, contact events) and the        *)
(* PoolGameUI callbacks update and draw.                                   *)
(*                                                                         *)
(* The physics engine is external: World::step is a nondeterministic       *)
(* choice of the bodies' activity and velocity and of the contact events   *)
(* it reports, drawn from the bounded sets below.  A handle returned by    *)
(* World::add_rigid_body is any handle that no body of the world holds     *)
(* (the body set reissues the handles of removed bodies).                  *)
(*                                                                         *)
(* dropped_balls_handles is a Vec the code only pushes to, filters and     *)
(* tests for membership: it is modelled as the bag of its elements.        *)
(*                                                                         *)
(* update is PoolTable::step followed by the keyboard handling (pc tells   *)
(* which of the two is next); draw runs between two updates.  A panic      *)
(* (Option::unwrap on None) ends the program: panicked names the function  *)
(* that panicked.                                                          *)
(*                                                                         *)
(* Spec is the program with an engine that sets balls rolling and reports  *)
(* single contacts.  SpecBurst has the engine report several pocket        *)
(* contacts in one step, SpecRest has it report balls slowing down and     *)
(* falling asleep, and SpecCalls adds a caller that invokes                *)
(* respawn_white_ball and initialize_balls directly.  SpecPower has the    *)
(* player hold the Down and Up keys, and SpecRestLive is SpecRest under    *)
(* the scheduling of the host loop.                                        *)
(***************************************************************************)
EXTENDS Integers, Sequences, FiniteSets, Bags, TLC

(* ---------------------------------------------------------------------- *)
(* Program constants                                                      *)
(* ---------------------------------------------------------------------- *)
BALL_SIZE == 120
WIDTH == 7720
HEIGHT == 4000
MARGIN_TOP == 1500
MARGIN_LEFT == 1000
BORDER == 280
BAND == 80

\* Z_GRAVITY = -0.7, in tenths
Z_GRAVITY_TENTHS == -7

\* the threshold of speed_up_inactive_ball
REST_THRESHOLD == 150

\* cane_force: initial value, key step and clamp of PoolGameUI
CANE_FORCE_INIT == 5
CANE_FORCE_STEP == 50
MAX_POWER == 1350

\* the rack of initialize_balls: 1 white, 1 eight, 7 red, 7 yellow; 6 holes
NUM_BALLS == 16
NUM_HOLES == 6

\* the mass of a ball: Ball::new(BALL_SIZE) at density 1, pi * 120^2
BALL_MASS == 45239

(* ---------------------------------------------------------------------- *)
(* Bounds of the model                                                    *)
(* ---------------------------------------------------------------------- *)
\* handles the body set can issue beyond those of the initial bodies
FreshHandles == 0
\* what one World::step reports, at most: the number of balls it leaves in
\* motion plus the number of contact events
EngineBudget == 1

(* ---------------------------------------------------------------------- *)
(* Handles and bodies                                                     *)
(* ---------------------------------------------------------------------- *)
\* Option::None for a handle
None == -1
\* BodyHandle::ground()
Ground == 0

MaxHandle == NUM_BALLS + NUM_HOLES + FreshHandles
Handles == 0..MaxHandle

Zero == <<0, 0>>

NoBody == [kind |-> "none", active |-> FALSE, vel |-> Zero, pos |-> Zero, force |-> Zero]

NewBody(k, p) == [kind |-> k, active |-> FALSE, vel |-> Zero, pos |-> p, force |-> Zero]

\* handles in the order initialize_balls adds the bodies
WhiteRack == 1
EightRack == 6
RedRack == <<2, 3, 7, 8, 10, 14, 16>>
YellowRack == <<4, 5, 9, 11, 12, 13, 15>>
\* handles in the order initialize_holes adds the bodies: top left, top, top
\* right, bottom right, bottom, bottom left
HoleAdded == <<17, 18, 19, 20, 21, 22>>
\* self.holes = [top_left, top, top_right, bottom_left, bottom, bottom_right]
HolesVec == <<17, 18, 19, 22, 21, 20>>

CenterY == MARGIN_TOP + BORDER + HEIGHT \div 2
CenterX == MARGIN_LEFT + BORDER + (WIDTH * 3) \div 4

\* the white ball's spawn point of initialize_balls
WhiteSpawn == <<MARGIN_LEFT + BORDER + WIDTH \div 4, CenterY>>

\* the spawn point of respawn_white_ball
RespawnPoint == <<MARGIN_LEFT + BORDER + WIDTH \div 4, MARGIN_TOP + BORDER + HEIGHT \div 2>>

\* rack offsets in BALL_SIZE units, by handle 2..16
RackOffset ==
  [h \in 2..NUM_BALLS |->
     CASE h = 2 -> <<-4, 0>>
       [] h = 3 -> <<-2, -1>>
       [] h = 4 -> <<-2, 1>>
       [] h = 5 -> <<0, -2>>
       [] h = 6 -> <<0, 0>>
       [] h = 7 -> <<0, 2>>
       [] h = 8 -> <<2, -3>>
       [] h = 9 -> <<2, -1>>
       [] h = 10 -> <<2, 1>>
       [] h = 11 -> <<2, 3>>
       [] h = 12 -> <<4, -4>>
       [] h = 13 -> <<4, -2>>
       [] h = 14 -> <<4, 0>>
       [] h = 15 -> <<4, 2>>
       [] OTHER -> <<4, 4>>]

RackPos(h) ==
  IF h = WhiteRack THEN WhiteSpawn
  ELSE <<CenterX + RackOffset[h][1] * BALL_SIZE, CenterY + RackOffset[h][2] * BALL_SIZE>>

HolePos ==
  [h \in 17..22 |->
     CASE h = 17 -> <<MARGIN_LEFT + BORDER + (BAND * 3) \div 4, MARGIN_TOP + BORDER + (BAND * 3) \div 4>>
       [] h = 18 -> <<MARGIN_LEFT + BORDER + BAND \div 2 + WIDTH \div 2, MARGIN_TOP + BORDER + BAND \div 2>>
       [] h = 19 -> <<MARGIN_LEFT + BORDER + BAND + WIDTH + BAND \div 4, MARGIN_TOP + BORDER + BAND>>
       [] h = 20 -> <<MARGIN_LEFT + BORDER + BAND + WIDTH + BAND \div 4, MARGIN_TOP + BORDER + HEIGHT + (BAND * 5) \div 4>>
       [] h = 21 -> <<MARGIN_LEFT + BORDER + BAND \div 2 + WIDTH \div 2, MARGIN_TOP + BORDER + HEIGHT + (BAND * 3) \div 2>>
       [] OTHER -> <<MARGIN_LEFT + BORDER + (BAND * 3) \div 4, MARGIN_TOP + BORDER + HEIGHT + (BAND * 5) \div 4>>]

(* ---------------------------------------------------------------------- *)
(* Sequences as the code uses Vec                                         *)
(* ---------------------------------------------------------------------- *)
Contains(s, x) == \E i \in 1..Len(s) : s[i] = x

\* iter().filter(|b| b != x).collect()
Without(s, x) == SelectSeq(s, LAMBDA b : b # x)

Range(s) == {s[i] : i \in 1..Len(s)}

Count(s, x) == Cardinality({i \in 1..Len(s) : s[i] = x})

\* Vec::push on a vector kept as the bag of its elements
BagPush(b, x) == b (+) SetToBag({x})

\* iter().filter(|b| b != x).collect() on such a vector
BagWithout(b, x) == [y \in DOMAIN b \ {x} |-> b[y]]

(* ---------------------------------------------------------------------- *)
(* State                                                                  *)
(* ---------------------------------------------------------------------- *)
VARIABLES
  pool_table,   \* PoolGameUI.pool_table, the PoolTable record
  cane_force,   \* PoolGameUI.cane_force
  keys_down,    \* the keys window.keyboard() reported down in the last update
  pc,           \* "idle" between two updates, "input" in update after step()
  panicked      \* "none", or the function whose unwrap panicked

vars == <<pool_table, cane_force, keys_down, pc, panicked>>


(* ---------------------------------------------------------------------- *)
(* PoolTable: construction                                                *)
(* ---------------------------------------------------------------------- *)
\* the bodies after initialze_world: the ground, one body per ball of the
\* rack, one body per hole
InitialBodies ==
  [h \in Handles |->
     IF h = Ground THEN NewBody("ground", Zero)
     ELSE IF h \in 1..NUM_BALLS THEN NewBody("ball", RackPos(h))
     ELSE IF h \in (NUM_BALLS + 1)..(NUM_BALLS + NUM_HOLES) THEN NewBody("hole", HolePos[h])
     ELSE NoBody]

\* a rack whose eight ball slot holds the first red ball's handle
InitialTable_eight_among_reds ==
  [bodies |-> InitialBodies,
   contact_events |-> << >>,
   holes |-> HolesVec,
   white_ball_handle |-> WhiteRack,
   white_ball_handle_dropped |-> None,
   ball_8_handle |-> RedRack[1],
   dropped_balls_handles |-> EmptyBag,
   yellow_balls_handles |-> YellowRack,
   red_balls_handles |-> RedRack]

\* the PoolTable after PoolTable::new and initialze_world
InitialTable ==
  [bodies |-> InitialBodies,
   contact_events |-> << >>,
   holes |-> HolesVec,
   white_ball_handle |-> WhiteRack,
   white_ball_handle_dropped |-> None,
   ball_8_handle |-> EightRack,
   dropped_balls_handles |-> EmptyBag,
   yellow_balls_handles |-> YellowRack,
   red_balls_handles |-> RedRack]

(* ---------------------------------------------------------------------- *)
(* The world                                                              *)
(* ---------------------------------------------------------------------- *)
\* the world holds a body under handle h; the world's handles are the domain
\* of bodies, Handles until a caller has more bodies added than those
HasBody(t, h) == h \in DOMAIN t.bodies /\ t.bodies[h].kind # "none"

\* a world that hands out handles whether they hold a body or not
FreeHandles_in_use(t) == 1..MaxHandle

\* the handles World::add_rigid_body may return
FreeHandles(t) == {h \in 1..MaxHandle : t.bodies[h].kind = "none"}

\* World::remove_bodies(&[h]): the ground is no body of the body set and stays
remove_bodies(bodies, h) ==
  IF h = Ground \/ h \notin DOMAIN bodies THEN bodies ELSE [bodies EXCEPT ![h] = NoBody]

\* add_ball(x, y), with h the handle World::add_rigid_body returns
add_ball(t, h, p) == [t EXCEPT !.bodies = (h :> NewBody("ball", p)) @@ @]

(* ---------------------------------------------------------------------- *)
(* PoolTable: the registry                                                *)
(* ---------------------------------------------------------------------- *)
\* the handles of the in-play slots in the order the code iterates them in
\* has_force and speed_up_inactive_balls: white, eight, reds, yellows
SlotSeq(t) ==
  (IF t.white_ball_handle # None THEN <<t.white_ball_handle>> ELSE << >>)
  \o (IF t.ball_8_handle # None THEN <<t.ball_8_handle>> ELSE << >>)
  \o t.red_balls_handles \o t.yellow_balls_handles

SlotHandles(t) == Range(SlotSeq(t))

\* drop_ball() leaving the ball's body in the world
drop_ball_without_remove(t, ball) ==
  IF BagIn(ball, t.dropped_balls_handles) THEN t
  ELSE
    LET t1 ==
          IF ball = t.white_ball_handle
            THEN [t EXCEPT !.white_ball_handle_dropped = t.white_ball_handle,
                           !.white_ball_handle = None]
          ELSE IF ball = t.ball_8_handle
            THEN [t EXCEPT !.ball_8_handle = None]
          ELSE IF Contains(t.red_balls_handles, ball)
            THEN [t EXCEPT !.red_balls_handles = Without(@, ball)]
          ELSE IF Contains(t.yellow_balls_handles, ball)
            THEN [t EXCEPT !.yellow_balls_handles = Without(@, ball)]
          ELSE t
    IN [t1 EXCEPT !.dropped_balls_handles = BagPush(@, ball)]

\* drop_ball() without the early return for a handle already dropped
drop_ball_unguarded(t, ball) ==
  LET t1 ==
        IF ball = t.white_ball_handle
          THEN [t EXCEPT !.white_ball_handle_dropped = t.white_ball_handle,
                         !.white_ball_handle = None]
        ELSE IF ball = t.ball_8_handle
          THEN [t EXCEPT !.ball_8_handle = None]
        ELSE IF Contains(t.red_balls_handles, ball)
          THEN [t EXCEPT !.red_balls_handles = Without(@, ball)]
        ELSE IF Contains(t.yellow_balls_handles, ball)
          THEN [t EXCEPT !.yellow_balls_handles = Without(@, ball)]
        ELSE t
  IN [t1 EXCEPT !.dropped_balls_handles = BagPush(@, ball),
                !.bodies = remove_bodies(@, ball)]

\* drop_ball() recording the eight ball for a respawn as it does the white
drop_ball_eight_respawns(t, ball) ==
  IF BagIn(ball, t.dropped_balls_handles) THEN t
  ELSE
    LET t1 ==
          IF ball = t.white_ball_handle
            THEN [t EXCEPT !.white_ball_handle_dropped = t.white_ball_handle,
                           !.white_ball_handle = None]
          ELSE IF ball = t.ball_8_handle
            THEN [t EXCEPT !.white_ball_handle_dropped = t.ball_8_handle,
                           !.ball_8_handle = None]
          ELSE IF Contains(t.red_balls_handles, ball)
            THEN [t EXCEPT !.red_balls_handles = Without(@, ball)]
          ELSE IF Contains(t.yellow_balls_handles, ball)
            THEN [t EXCEPT !.yellow_balls_handles = Without(@, ball)]
          ELSE t
    IN [t1 EXCEPT !.dropped_balls_handles = BagPush(@, ball),
                  !.bodies = remove_bodies(@, ball)]

drop_ball(t, ball) ==
  IF BagIn(ball, t.dropped_balls_handles) THEN t
  ELSE
    LET t1 ==
          IF ball = t.white_ball_handle
            THEN [t EXCEPT !.white_ball_handle_dropped = t.white_ball_handle,
                           !.white_ball_handle = None]
          ELSE IF ball = t.ball_8_handle
            THEN [t EXCEPT !.ball_8_handle = None]
          ELSE IF Contains(t.red_balls_handles, ball)
            THEN [t EXCEPT !.red_balls_handles = Without(@, ball)]
          ELSE IF Contains(t.yellow_balls_handles, ball)
            THEN [t EXCEPT !.yellow_balls_handles = Without(@, ball)]
          ELSE t
    IN [t1 EXCEPT !.dropped_balls_handles = BagPush(@, ball),
                  !.bodies = remove_bodies(@, ball)]

\* a contact event is <<kind, body1, body2>>, the bodies being those of the
\* event's two colliders; the result is Option<BodyHandle>
handle_contact_event(t, event) ==
  IF event[1] = "Started"
    THEN IF Contains(t.holes, event[2]) THEN event[3]
         ELSE IF Contains(t.holes, event[3]) THEN event[2]
         ELSE None
    ELSE None

\* respawn_white_ball, with h the handle add_ball returns
\* respawn_white_ball() keeping the record of the dropped white ball
respawn_white_ball_keeps_record(t, h) ==
  LET t1 == add_ball(t, h, RespawnPoint)
  IN [t1 EXCEPT !.dropped_balls_handles = BagWithout(@, h),
                !.white_ball_handle = h]

respawn_white_ball(t, h) ==
  LET t1 == add_ball(t, h, RespawnPoint)
  IN [t1 EXCEPT !.dropped_balls_handles = BagWithout(@, h),
                !.white_ball_handle = h,
                !.white_ball_handle_dropped = None]

Abs(x) == IF x < 0 THEN -x ELSE x

\* speed_up_inactive_ball() stopping a ball slow on either axis
speed_up_inactive_ball_either_axis(bodies, handle) ==
  LET vel == bodies[handle].vel
  IN IF vel[1] = 0 /\ vel[2] = 0 THEN bodies
     ELSE IF Abs(vel[1]) < REST_THRESHOLD \/ Abs(vel[2]) < REST_THRESHOLD
       THEN [bodies EXCEPT ![handle].vel = Zero]
     ELSE bodies

speed_up_inactive_ball(bodies, handle) ==
  LET vel == bodies[handle].vel
  IN IF vel[1] = 0 /\ vel[2] = 0 THEN bodies
     ELSE IF Abs(vel[1]) < REST_THRESHOLD /\ Abs(vel[2]) < REST_THRESHOLD
       THEN [bodies EXCEPT ![handle].vel = Zero]
     ELSE bodies

\* speed_up_inactive_ball on each slot's ball; a call touches one body,
\* repeating it changes nothing and it returns at once at velocity zero
speed_up_inactive_balls(t) ==
  LET slots == SlotHandles(t)
      bodies == t.bodies
  IN [t EXCEPT !.bodies =
        [h \in DOMAIN bodies |->
           IF h \in slots /\ bodies[h].vel # Zero
             THEN speed_up_inactive_ball(bodies, h)[h]
             ELSE bodies[h]]]

\* is_active(Some(h)); is_active(None) is false
is_active(t, h) == h # None /\ t.bodies[h].active

\* the first slot, in iteration order, whose ball is active or whose body is
\* missing (rigid_body(h).unwrap() panics there); 0 when there is none
FirstDeciding(t) ==
  LET s == SlotSeq(t)
      hit == {i \in 1..Len(s) : ~HasBody(t, s[i]) \/ t.bodies[s[i]].active}
  IN IF hit = {} THEN 0 ELSE CHOOSE i \in hit : \A j \in hit : i <= j

has_force_panics(t) ==
  LET i == FirstDeciding(t)
  IN i # 0 /\ ~HasBody(t, SlotSeq(t)[i])

\* has_force() looking at the white ball only
has_force_white_only(t) == is_active(t, t.white_ball_handle)

has_force(t) ==
  \/ is_active(t, t.white_ball_handle)
  \/ is_active(t, t.ball_8_handle)
  \/ \E i \in 1..Len(t.red_balls_handles) : is_active(t, t.red_balls_handles[i])
  \/ \E i \in 1..Len(t.yellow_balls_handles) : is_active(t, t.yellow_balls_handles[i])

\* integer square root, for powf(1.5)
RECURSIVE ISqrtFrom(_, _)
ISqrtFrom(n, r) == IF (r + 1) * (r + 1) > n THEN r ELSE ISqrtFrom(n, r + 1)

\* cane_force.powf(1.5), rounded down: the largest r with r * r <= p * p * p,
\* found as p * s + k with s the integer square root of p, which keeps every
\* product within 32 bits for p up to MAX_POWER
Pow15(p) ==
  LET s == ISqrtFrom(p, 0)
      d == p - s * s
  IN p * s + (CHOOSE k \in 0..p :
                 /\ k * (2 * p * s + k) <= p * p * d
                 /\ (k + 1) * (2 * p * s + k + 1) > p * p * d)

\* shoot(cane_force_x, cane_force_y): white_ball_handle.unwrap() panics on None
shoot_panics(t) == t.white_ball_handle = None \/ ~HasBody(t, t.white_ball_handle)

shoot(t, v) == [t EXCEPT !.bodies[t.white_ball_handle].vel = v]

\* ZGravity::apply_force: force = inertia * (vel * Z_GRAVITY), added to the body
DragForce(vel) ==
  <<(BALL_MASS * Z_GRAVITY_TENTHS * vel[1]) \div 10,
    (BALL_MASS * Z_GRAVITY_TENTHS * vel[2]) \div 10>>

\* the body after n calls of apply_force
apply_force(body, n) ==
  LET f == DragForce(body.vel)
  IN [body EXCEPT !.force = <<@[1] + n * f[1], @[2] + n * f[2]>>]

\* the drag calls of step without the one on the eight ball
DragSeq_without_eight(t) ==
  (IF t.white_ball_handle # None THEN <<t.white_ball_handle>> ELSE << >>)
  \o t.yellow_balls_handles \o t.red_balls_handles

\* the order of step: white, eight, yellows, reds
DragSeq(t) ==
  (IF t.white_ball_handle # None THEN <<t.white_ball_handle>> ELSE << >>)
  \o (IF t.ball_8_handle # None THEN <<t.ball_8_handle>> ELSE << >>)
  \o t.yellow_balls_handles \o t.red_balls_handles

\* the candidates step collects from the contact events, in event order
RECURSIVE Candidates(_, _)
Candidates(t, events) ==
  IF events = << >> THEN << >>
  ELSE LET c == handle_contact_event(t, Head(events))
       IN (IF c # None THEN <<c>> ELSE << >>) \o Candidates(t, Tail(events))

\* for ball in balls { self.drop_ball(&ball) }
RECURSIVE DropAll(_, _)
DropAll(t, bs) ==
  IF bs = << >> THEN t ELSE DropAll(drop_ball(t, Head(bs)), Tail(bs))


(* ---------------------------------------------------------------------- *)
(* The physics engine: what one World::step may report                    *)
(* ---------------------------------------------------------------------- *)
\* the object balls the engine sets in motion: the eight, the first red and
\* the first yellow of the rack; the other balls of the rack stay at rest
MobileObjects == {EightRack, RedRack[1], YellowRack[1]}

\* the two holes contacts are reported with
PocketA == HoleAdded[1]
PocketB == HoleAdded[2]

\* the velocity of a rolling ball
RollVel == <<200, 10>>

IsBall(t, h) == h \in DOMAIN t.bodies /\ t.bodies[h].kind = "ball"
IsHole(t, h) == h \in DOMAIN t.bodies /\ t.bodies[h].kind = "hole"

\* the ball bodies the engine may move or report in a contact
Mobile(t) == {h \in MobileObjects \cup {t.white_ball_handle} : IsBall(t, h)}

\* the contacts the engine may report, as <<kind, body1, body2>>
ContactAlphabet(t) ==
  LET w == t.white_ball_handle
  IN {<<"Started", b, PocketA>> : b \in {h \in {w} : IsBall(t, h) /\ IsHole(t, PocketA)}}
     \cup {<<"Started", PocketA, b>> : b \in {h \in Mobile(t) \ {w} : IsHole(t, PocketA)}}
     \cup {<<"Stopped", b, PocketA>> : b \in {h \in {w} : IsBall(t, h) /\ IsHole(t, PocketA)}}
     \cup {<<"Started", PocketA, PocketB>> : b \in {h \in {PocketB} : IsHole(t, h) /\ IsHole(t, PocketA)}}
     \cup {<<"Started", PocketA, Ground>> : b \in {h \in {PocketA} : IsHole(t, h)}}
     \cup {<<"Started", b, EightRack>> : b \in {h \in {w} : IsBall(t, h) /\ IsBall(t, EightRack) /\ h # EightRack}}

\* the sequences of at most n events over the alphabet a
RECURSIVE EventSeqs(_, _)
EventSeqs(a, n) ==
  IF n = 0 THEN {<< >>}
  ELSE LET shorter == EventSeqs(a, n - 1)
       IN shorter \cup {Append(s, e) : s \in shorter, e \in a}

\* what one step may report: the set of balls it leaves in motion and the
\* sequence of contact events
EngineOutcomes(t) ==
  LET alphabet == ContactAlphabet(t)
  IN UNION {{<<m, events>> : events \in EventSeqs(alphabet, EngineBudget - Cardinality(m))} :
              m \in {x \in SUBSET Mobile(t) : Cardinality(x) <= EngineBudget}}

\* the engine's report on a rolling ball, <<is_active, velocity>>
Rolling(m) == [h \in m |-> <<TRUE, RollVel>>]

\* the bodies after the engine's step: forces are consumed; `moving` maps
\* some mobile balls to the engine's report <<is_active, velocity>> on them,
\* another mobile ball sleeps at rest; every other body is left as it is.
\* Positions are not integrated: pos is the point the body was created at
StepBodies(t, moving) ==
  LET mobile == Mobile(t)
      bodies == t.bodies
  IN [h \in DOMAIN bodies |->
        IF h \in DOMAIN moving
          THEN [bodies[h] EXCEPT !.active = moving[h][1], !.vel = moving[h][2],
                                 !.force = Zero]
        ELSE IF h \in mobile
          THEN [bodies[h] EXCEPT !.active = FALSE, !.vel = Zero, !.force = Zero]
        ELSE [bodies[h] EXCEPT !.force = Zero]]

(* ---------------------------------------------------------------------- *)
(* PoolTable::step                                                        *)
(* ---------------------------------------------------------------------- *)
\* self.world.step(): the engine's outcome is `moving` and `events`
AfterWorldStep(t, moving, events) ==
  [t EXCEPT !.bodies = StepBodies(t, moving), !.contact_events = events]

\* the z_gravity.apply_force calls of step; on a body at velocity zero the
\* force applied is zero
AfterDrag(t) ==
  LET seq == DragSeq(t)
      dragged == Range(seq)
      bodies == t.bodies
  IN [t EXCEPT !.bodies =
        [h \in DOMAIN bodies |->
           IF h \in dragged /\ bodies[h].vel # Zero
             THEN apply_force(bodies[h], Count(seq, h))
             ELSE bodies[h]]]

\* step dropping the first candidate only
AfterContacts_first_only(t) ==
  LET bs == Candidates(t, t.contact_events)
  IN IF bs = << >> THEN t ELSE drop_ball(t, Head(bs))

\* the two loops of step over the contact events and over `balls`
AfterContacts(t) ==
  LET bs == Candidates(t, t.contact_events)
  IN DropAll(t, bs)

\* if self.has_force() { self.speed_up_inactive_balls() }
AfterRest(t) == IF has_force(t) THEN speed_up_inactive_balls(t) ELSE t

\* step() up to its has_force call, on the engine's outcome
BeforeRest(t, moving, events) ==
  LET t1 == AfterWorldStep(t, moving, events)
      t2 == AfterDrag(t1)
  IN AfterContacts(t2)

\* step(), on the engine's outcome `moving` and `events`
step(t, moving, events) == AfterRest(BeforeRest(t, moving, events))

(* ---------------------------------------------------------------------- *)
(* PoolGameUI::update: step, then the keyboard                            *)
(* ---------------------------------------------------------------------- *)
Running == panicked = "none"

Panic(f) == panicked' = f /\ UNCHANGED <<pool_table, cane_force, pc>>

Key_Return == "Return"
Key_Down == "Down"
Key_Up == "Up"

\* step() running the rest stabilizer before the drag
Tick_rest_before_drag(moving, events) ==
  /\ Running /\ pc = "idle"
  /\ LET t1 == AfterRest(AfterWorldStep(pool_table, moving, events))
         t3 == AfterContacts(AfterDrag(t1))
     IN IF has_force_panics(t3)
          THEN Panic("is_active")
          ELSE /\ pool_table' = t3
               /\ pc' = "input"
               /\ UNCHANGED <<cane_force, panicked>>
  /\ UNCHANGED keys_down

\* self.pool_table.step()
Tick(moving, events) ==
  /\ Running /\ pc = "idle"
  /\ LET t3 == BeforeRest(pool_table, moving, events)
     IN IF has_force_panics(t3)
          THEN Panic("is_active")
          ELSE /\ pool_table' = AfterRest(t3)
               /\ pc' = "input"
               /\ UNCHANGED <<cane_force, panicked>>
  /\ UNCHANGED keys_down

Clamp(f) == IF f < 0 THEN 0 ELSE IF f > MAX_POWER THEN MAX_POWER ELSE f

\* cane_force after the Down and Up keys and the clamp
KeyedForce(f, keys) ==
  Clamp(f + (IF Key_Down \in keys THEN CANE_FORCE_STEP ELSE 0)
          - (IF Key_Up \in keys THEN CANE_FORCE_STEP ELSE 0))

\* the velocity of the shot; cane_rotation keeps its initial value 0 (the
\* Left and Right keys are not pressed), so cos is 1 and sin is 0
ShotVelocity(f) == <<Pow15(f) * 1, Pow15(f) * 0>>

\* the keyboard part of update, with `keys` the keys that are down
\* the keyboard part of update() shooting without asking has_force()
Input_ungated(keys) ==
  /\ Running /\ pc = "input"
  /\ keys_down' = keys
  /\ LET f == KeyedForce(cane_force, keys)
     IN IF Key_Return \in keys
          THEN IF shoot_panics(pool_table) THEN Panic("shoot")
               ELSE /\ pool_table' = shoot(pool_table, ShotVelocity(f))
                    /\ cane_force' = CANE_FORCE_INIT
                    /\ pc' = "idle"
                    /\ UNCHANGED panicked
          ELSE /\ cane_force' = f
               /\ pc' = "idle"
               /\ UNCHANGED <<pool_table, panicked>>

\* the keyboard part of update() keeping cane_force after a shot
Input_keeps_power(keys) ==
  /\ Running /\ pc = "input"
  /\ keys_down' = keys
  /\ LET f == KeyedForce(cane_force, keys)
     IN IF Key_Return \in keys
          THEN IF has_force_panics(pool_table) THEN Panic("is_active")
               ELSE IF ~has_force(pool_table)
                 THEN IF shoot_panics(pool_table) THEN Panic("shoot")
                      ELSE /\ pool_table' = shoot(pool_table, ShotVelocity(f))
                           /\ cane_force' = f
                           /\ pc' = "idle"
                           /\ UNCHANGED panicked
               ELSE /\ cane_force' = f
                    /\ pc' = "idle"
                    /\ UNCHANGED <<pool_table, panicked>>
          ELSE /\ cane_force' = f
               /\ pc' = "idle"
               /\ UNCHANGED <<pool_table, panicked>>

Input(keys) ==
  /\ Running /\ pc = "input"
  /\ keys_down' = keys
  /\ LET f == KeyedForce(cane_force, keys)
     IN IF Key_Return \in keys
          THEN IF has_force_panics(pool_table) THEN Panic("is_active")
               ELSE IF ~has_force(pool_table)
                 THEN IF shoot_panics(pool_table) THEN Panic("shoot")
                      ELSE /\ pool_table' = shoot(pool_table, ShotVelocity(f))
                           /\ cane_force' = CANE_FORCE_INIT
                           /\ pc' = "idle"
                           /\ UNCHANGED panicked
               ELSE /\ cane_force' = f
                    /\ pc' = "idle"
                    /\ UNCHANGED <<pool_table, panicked>>
          ELSE /\ cane_force' = f
               /\ pc' = "idle"
               /\ UNCHANGED <<pool_table, panicked>>

(* ---------------------------------------------------------------------- *)
(* PoolGameUI::draw                                                       *)
(* ---------------------------------------------------------------------- *)
\* draw() without the respawn of the white ball
Draw_never_respawns ==
  /\ Running /\ pc = "idle"
  /\ IF \E h \in SlotHandles(pool_table) : ~HasBody(pool_table, h)
       THEN Panic("draw_ball") /\ UNCHANGED keys_down
     ELSE IF has_force_panics(pool_table) THEN Panic("is_active") /\ UNCHANGED keys_down
     ELSE UNCHANGED vars

\* draw() respawning the white ball without asking has_force()
Draw_respawns_while_rolling ==
  /\ Running /\ pc = "idle"
  /\ IF \E h \in SlotHandles(pool_table) : ~HasBody(pool_table, h)
       THEN Panic("draw_ball") /\ UNCHANGED keys_down
     ELSE IF has_force_panics(pool_table) THEN Panic("is_active") /\ UNCHANGED keys_down
     ELSE IF pool_table.white_ball_handle = None
       THEN /\ \E h \in FreeHandles(pool_table) :
                 pool_table' = respawn_white_ball(pool_table, h)
            /\ UNCHANGED <<cane_force, keys_down, pc, panicked>>
     ELSE UNCHANGED vars

Draw ==
  /\ Running /\ pc = "idle"
  /\ IF \E h \in SlotHandles(pool_table) : ~HasBody(pool_table, h)
       THEN Panic("draw_ball") /\ UNCHANGED keys_down
     ELSE IF has_force_panics(pool_table) THEN Panic("is_active") /\ UNCHANGED keys_down
     ELSE IF ~has_force(pool_table) /\ pool_table.white_ball_handle = None
       THEN /\ \E h \in FreeHandles(pool_table) :
                 pool_table' = respawn_white_ball(pool_table, h)
            /\ UNCHANGED <<cane_force, keys_down, pc, panicked>>
     ELSE UNCHANGED vars

(* ---------------------------------------------------------------------- *)
(* Specification                                                          *)
(* ---------------------------------------------------------------------- *)
Init ==
  /\ pool_table = InitialTable
  /\ cane_force = CANE_FORCE_INIT
  /\ keys_down = {}
  /\ pc = "idle"
  /\ panicked = "none"

\* the keys the player holds during an update
KeySets == SUBSET {Key_Return}

Step == \E o \in EngineOutcomes(pool_table) : Tick(Rolling(o[1]), o[2])

Shot == \E keys \in KeySets : Input(keys)

Next ==
  \/ Step
  \/ Shot
  \/ Draw

Spec == Init /\ [][Next]_vars

(* ---------------------------------------------------------------------- *)
(* A second environment: the engine reports bursts of pocket contacts     *)
(* ---------------------------------------------------------------------- *)
\* contact events one World::step reports in a burst, at most
BurstLen == 2

\* pocket contacts of the white ball (reported both ways round), of the
\* first red ball and of the second hole
BurstAlphabet(t) ==
  LET w == t.white_ball_handle
  IN {<<"Started", b, PocketA>> : b \in {h \in {w} : IsBall(t, h) /\ IsHole(t, PocketA)}}
     \cup {<<"Started", PocketA, b>> :
              b \in {h \in {w, RedRack[1]} : IsBall(t, h) /\ IsHole(t, PocketA)}}
     \cup {<<"Started", PocketA, PocketB>> : b \in {h \in {PocketB} : IsHole(t, h) /\ IsHole(t, PocketA)}}

StepBurst ==
  \E events \in EventSeqs(BurstAlphabet(pool_table), BurstLen) : Tick(Rolling({}), events)

NextBurst ==
  \/ StepBurst
  \/ Shot
  \/ Draw

SpecBurst == Init /\ [][NextBurst]_vars


(* ---------------------------------------------------------------------- *)
(* A third environment: a caller of PoolTable's own operations            *)
(* ---------------------------------------------------------------------- *)
\* direct calls of respawn_white_ball and initialize_balls, at most
SpareCalls == 1

\* initialize_balls(), with hs the handles World::add_rigid_body returns to
\* its add_ball calls, in call order
initialize_balls(t, hs) ==
  LET bodies == t.bodies
      racked == [h \in Range(hs) |->
                   NewBody("ball", RackPos(CHOOSE i \in 1..Len(hs) : hs[i] = h))]
  IN [t EXCEPT !.bodies = racked @@ bodies,
               !.red_balls_handles = [i \in 1..Len(RedRack) |-> hs[RedRack[i]]],
               !.yellow_balls_handles = [i \in 1..Len(YellowRack) |-> hs[YellowRack[i]]],
               !.ball_8_handle = hs[EightRack],
               !.white_ball_handle = hs[WhiteRack]]

\* n handles the world has not issued yet, lowest first
FreshFrom(t, n) ==
  LET top == CHOOSE h \in DOMAIN t.bodies : \A g \in DOMAIN t.bodies : g <= h
  IN [i \in 1..n |-> top + i]

\* the bodies added by direct calls so far
Extra(t) == Cardinality(DOMAIN t.bodies) - Cardinality(Handles)

\* respawn_white_ball() called between two updates, whatever the white ball's slot
CallRespawnWhiteBall ==
  /\ Running /\ pc = "idle"
  /\ Extra(pool_table) < SpareCalls
  /\ pool_table' = respawn_white_ball(pool_table, FreshFrom(pool_table, 1)[1])
  /\ UNCHANGED <<cane_force, keys_down, pc, panicked>>

\* initialize_balls() called again between two updates
CallInitializeBalls ==
  /\ Running /\ pc = "idle"
  /\ Extra(pool_table) < SpareCalls
  /\ pool_table' = initialize_balls(pool_table, FreshFrom(pool_table, NUM_BALLS))
  /\ UNCHANGED <<cane_force, keys_down, pc, panicked>>

NextCalls ==
  \/ StepBurst
  \/ Shot
  \/ Draw
  \/ CallRespawnWhiteBall
  \/ CallInitializeBalls

SpecCalls == Init /\ [][NextCalls]_vars

(* ---------------------------------------------------------------------- *)
(* A fourth environment: the engine reports balls slowing down            *)
(* ---------------------------------------------------------------------- *)
\* the residual velocity of a ball that has nearly stopped
SlowVel == <<120, 40>>

\* what the engine may report on a ball, <<is_active, velocity>>: rolling,
\* rolling slowly, asleep with a residual velocity, asleep with a velocity
\* above the threshold on one axis
Reports == {<<TRUE, RollVel>>, <<TRUE, SlowVel>>, <<FALSE, SlowVel>>, <<FALSE, RollVel>>}

\* the balls the engine reports on: the white ball and the eight
RestBalls(t) == Mobile(t) \cap {t.white_ball_handle, EightRack}

\* what one such step may report: a report on each ball of a set of them
RestOutcomes(t) == UNION {[m -> Reports] : m \in SUBSET RestBalls(t)}

\* the contact events of such a step: none, or the white ball in a pocket
RestEvents(t) ==
  {<< >>} \cup {<<<<"Started", b, PocketA>>>> :
                  b \in {h \in {t.white_ball_handle} : IsBall(t, h) /\ IsHole(t, PocketA)}}

StepRest ==
  \E o \in RestOutcomes(pool_table), events \in RestEvents(pool_table) : Tick(o, events)

NextRest ==
  \/ StepRest
  \/ Shot
  \/ Draw

SpecRest == Init /\ [][NextRest]_vars

\* the same environment with the host loop's scheduling: an update that has
\* run step() goes on to its keyboard part, and run() calls draw after the
\* updates of every frame, so a draw that would respawn the white ball is not
\* put off forever
SpecRestLive ==
  /\ Init /\ [][NextRest]_vars
  /\ WF_vars(Shot)
  /\ SF_vars(Draw)

(* ---------------------------------------------------------------------- *)
(* A fifth environment: the player works the power keys                   *)
(* ---------------------------------------------------------------------- *)
\* the keys the player holds during an update: Return, Down (more power) and
\* Up (less power)
PowerKeySets == SUBSET {Key_Return, Key_Down, Key_Up}

ShotPower == \E keys \in PowerKeySets : Input(keys)

\* the engine reports the white ball rolling or every ball at rest, and no
\* contact or the white ball in a pocket
StepPower ==
  \E m \in SUBSET (Mobile(pool_table) \cap {pool_table.white_ball_handle}),
     events \in RestEvents(pool_table) : Tick(Rolling(m), events)

NextPower ==
  \/ StepPower
  \/ ShotPower
  \/ Draw

SpecPower == Init /\ [][NextPower]_vars

(* ---------------------------------------------------------------------- *)
(* Views of the state used by the properties                              *)
(* ---------------------------------------------------------------------- *)
\* the handles that hold a body of the world
Present(t) == {h \in DOMAIN t.bodies : t.bodies[h].kind # "none"}

\* the handles that hold a ball's body
BallBodies(t) == {h \in DOMAIN t.bodies : t.bodies[h].kind = "ball"}

\* the registry and the set of bodies, without the bodies' motion
RegistryView(t) ==
  [white |-> t.white_ball_handle,
   white_dropped |-> t.white_ball_handle_dropped,
   eight |-> t.ball_8_handle,
   dropped |-> t.dropped_balls_handles,
   red |-> t.red_balls_handles,
   yellow |-> t.yellow_balls_handles,
   present |-> Present(t)]

\* some ball of the world is reported active by the engine
TableRolling(t) == \E h \in BallBodies(t) : t.bodies[h].active

\* the step at hand is PoolTable::step returning
IsTick == pc = "idle" /\ pc' = "input"

\* the step at hand is the keyboard part of update, Return being down
IsShootRequest == pc = "input" /\ keys_down' # keys_down' \ {Key_Return}

(* ---------------------------------------------------------------------- *)
(* C1                                                                     *)
(* ---------------------------------------------------------------------- *)
\* C1: registry invariant.  In every reachable state the handles of the
\* in-play slots (white, eight, reds, yellows) are exactly the handles that
\* hold a ball's body in the world; the white ball is out of its slot exactly
\* when the awaiting-respawn record is set, and then the recorded handle
\* holds no body; no handle of the dropped vector is in a slot.
C1_RegistryInvariant ==
  /\ SlotHandles(pool_table) = BallBodies(pool_table)
  /\ (pool_table.white_ball_handle = None) <=> (pool_table.white_ball_handle_dropped # None)
  /\ pool_table.white_ball_handle = None =>
       ~HasBody(pool_table, pool_table.white_ball_handle_dropped)
  /\ \A h \in SlotHandles(pool_table) : ~BagIn(h, pool_table.dropped_balls_handles)

\* a red ball was pocketed, the white ball was pocketed and respawned on the
\* red ball's handle
C1_Witness ==
  /\ pc = "idle"
  /\ pool_table.white_ball_handle = RedRack[1]
  /\ ~Contains(pool_table.red_balls_handles, RedRack[1])
  /\ Len(pool_table.red_balls_handles) = Len(RedRack) - 1

(* ---------------------------------------------------------------------- *)
(* C2                                                                     *)
(* ---------------------------------------------------------------------- *)
\* C2: a shoot request (Return down in update) that arrives while the white
\* ball is out of play leaves the pool table unchanged and does not abort
\* the program.
C2_ShootWithoutWhiteIsNoOp ==
  [][(IsShootRequest /\ pool_table.white_ball_handle = None)
       => (panicked' = "none" /\ pool_table' = pool_table)]_vars

(* ---------------------------------------------------------------------- *)
(* C3                                                                     *)
(* ---------------------------------------------------------------------- *)
\* C3: a shoot request that arrives while some in-play ball is active leaves
\* the pool table (every ball's velocity and state) unchanged.
C3_NoShotWhileRolling ==
  [][(IsShootRequest /\ TableRolling(pool_table))
       => (pool_table' = pool_table /\ panicked' = "none")]_vars

\* a shoot request was refused: Return was down in the update that just
\* ended, a ball other than the white one is active and the white ball, in
\* play, is at rest
C3_Witness ==
  /\ pc = "idle"
  /\ Key_Return \in keys_down
  /\ pool_table.white_ball_handle # None
  /\ pool_table.bodies[pool_table.white_ball_handle].vel = Zero
  /\ \E h \in BallBodies(pool_table) \ {pool_table.white_ball_handle} :
       pool_table.bodies[h].active


(* ---------------------------------------------------------------------- *)
(* C4                                                                     *)
(* ---------------------------------------------------------------------- *)
\* the elements of bs in order, each at its first occurrence only
RECURSIVE FirstOccurrences(_)
FirstOccurrences(bs) ==
  IF bs = << >> THEN << >>
  ELSE LET front == FirstOccurrences(SubSeq(bs, 1, Len(bs) - 1))
           last == bs[Len(bs)]
       IN IF Contains(front, last) THEN front ELSE Append(front, last)

\* C4: pocketing is idempotent.  After a step, the registry and the set of
\* bodies are what pocketing each candidate of the step's contact events
\* once, at its first occurrence, gives; and pocketing a candidate twice in
\* succession gives the same table as pocketing it once.
C4_PocketIdempotent ==
  [][IsTick =>
       LET bs == Candidates(pool_table, pool_table'.contact_events)
       IN /\ RegistryView(pool_table')
               = RegistryView(DropAll(pool_table, FirstOccurrences(bs)))
          /\ \A b \in Range(bs) :
               drop_ball(drop_ball(pool_table, b), b) = drop_ball(pool_table, b)]_vars

\* one step reported two pocket contacts of the white ball, which was
\* pocketed once
C4_Witness ==
  /\ pc = "input"
  /\ \E b \in Handles :
       /\ pool_table.contact_events
            = <<<<"Started", b, PocketA>>, <<"Started", PocketA, b>>>>
       /\ pool_table.white_ball_handle_dropped = b
       /\ CopiesIn(b, pool_table.dropped_balls_handles) = 1
       /\ ~HasBody(pool_table, b)

(* ---------------------------------------------------------------------- *)
(* C5                                                                     *)
(* ---------------------------------------------------------------------- *)
\* event e is a contact-started event between body h and a hole's body
PocketContactOf(t, e, h) ==
  /\ e[1] = "Started"
  /\ \/ e[2] = h /\ IsHole(t, e[3])
     \/ e[3] = h /\ IsHole(t, e[2])

\* C5: when the contact-started events of a step include a contact between
\* the in-play white ball's body and a hole, then after the step the white
\* ball awaits its respawn, its body is gone and its handle is in no slot.
C5_WhitePocketed ==
  [][(/\ IsTick
      /\ pool_table.white_ball_handle # None
      /\ \E i \in 1..Len(pool_table'.contact_events) :
           PocketContactOf(pool_table, pool_table'.contact_events[i],
                           pool_table.white_ball_handle))
       => (/\ pool_table'.white_ball_handle = None
           /\ pool_table'.white_ball_handle_dropped = pool_table.white_ball_handle
           /\ ~HasBody(pool_table', pool_table.white_ball_handle)
           /\ pool_table.white_ball_handle \notin SlotHandles(pool_table'))]_vars

(* ---------------------------------------------------------------------- *)
(* C6                                                                     *)
(* ---------------------------------------------------------------------- *)
\* C6: a respawn (the draw that finds the white ball awaiting its respawn and
\* changes the table) puts the white ball in play on a handle that held no
\* body, with a new body at rest at the white spawn point of the initial
\* rack, clears the awaiting-respawn record and leaves the other slots and
\* every other body as they were.
C6_Respawn ==
  [][(/\ pc = "idle" /\ pc' = "idle"
      /\ pool_table.white_ball_handle = None
      /\ pool_table' # pool_table)
       => LET h == pool_table'.white_ball_handle
          IN /\ h # None
             /\ ~HasBody(pool_table, h)
             /\ pool_table'.bodies[h] = NewBody("ball", InitialBodies[WhiteRack].pos)
             /\ pool_table'.white_ball_handle_dropped = None
             /\ pool_table'.ball_8_handle = pool_table.ball_8_handle
             /\ pool_table'.red_balls_handles = pool_table.red_balls_handles
             /\ pool_table'.yellow_balls_handles = pool_table.yellow_balls_handles
             /\ \A g \in Handles \ {h} : pool_table'.bodies[g] = pool_table.bodies[g]]_vars

\* the white ball was respawned, on the handle the pocketed eight ball had
C6_Witness ==
  /\ pc = "idle"
  /\ pool_table.white_ball_handle = EightRack
  /\ pool_table.white_ball_handle_dropped = None
  /\ pool_table.bodies[EightRack].pos = WhiteSpawn

(* ---------------------------------------------------------------------- *)
(* C7                                                                     *)
(* ---------------------------------------------------------------------- *)
\* C7: only the white ball returns to play.  No step puts a handle back in
\* the eight, red or yellow slots, a ball's body is created only for the
\* white ball while it awaits its respawn, and the awaiting-respawn record
\* only ever takes the handle of the white ball.
C7_OnlyWhiteReturns ==
  [][/\ pool_table.ball_8_handle = None => pool_table'.ball_8_handle = None
     /\ Range(pool_table'.red_balls_handles) \subseteq Range(pool_table.red_balls_handles)
     /\ Range(pool_table'.yellow_balls_handles) \subseteq Range(pool_table.yellow_balls_handles)
     /\ \A h \in BallBodies(pool_table') \ BallBodies(pool_table) :
          pool_table.white_ball_handle = None /\ pool_table'.white_ball_handle = h
     /\ pool_table'.white_ball_handle_dropped
          \in {None, pool_table.white_ball_handle_dropped, pool_table.white_ball_handle}]_vars

\* the eight ball and a yellow ball are pocketed, and the white ball has been
\* pocketed and respawned since, on the yellow ball's handle
C7_Witness ==
  /\ pc = "idle"
  /\ pool_table.ball_8_handle = None
  /\ pool_table.white_ball_handle = YellowRack[1]
  /\ Len(pool_table.yellow_balls_handles) = Len(YellowRack) - 1

(* ---------------------------------------------------------------------- *)
(* C8                                                                     *)
(* ---------------------------------------------------------------------- *)
\* event e is a contact-started event between two holes or between two
\* bodies neither of which is a hole
NoPocketContact(t, e) ==
  e[1] = "Started" /\ (IsHole(t, e[2]) <=> IsHole(t, e[3]))

\* C8: a step whose contact events are all contact-started events between
\* two non-pocket bodies or between two pockets removes no body, changes no
\* slot and records no handle as dropped.
C8_NoActionWithoutPocketPair ==
  [][(/\ IsTick
      /\ pool_table'.contact_events # << >>
      /\ \A i \in 1..Len(pool_table'.contact_events) :
           NoPocketContact(pool_table, pool_table'.contact_events[i]))
       => RegistryView(pool_table') = RegistryView(pool_table)]_vars

(* ---------------------------------------------------------------------- *)
(* C9                                                                     *)
(* ---------------------------------------------------------------------- *)
\* event e is a contact-started event between a hole and a body that is
\* neither a ball nor a hole
PocketContactOfNonBall(t, e) ==
  /\ e[1] = "Started"
  /\ \/ IsHole(t, e[2]) /\ ~IsBall(t, e[3]) /\ ~IsHole(t, e[3])
     \/ IsHole(t, e[3]) /\ ~IsBall(t, e[2]) /\ ~IsHole(t, e[2])

\* C9: a step whose contact events are all contacts between a pocket and a
\* body that is no ball pockets nothing: no body is removed, no slot changes
\* and no handle is recorded as dropped.
C9_OnlyBallsArePocketed ==
  [][(/\ IsTick
      /\ pool_table'.contact_events # << >>
      /\ \A i \in 1..Len(pool_table'.contact_events) :
           PocketContactOfNonBall(pool_table, pool_table'.contact_events[i]))
       => RegistryView(pool_table') = RegistryView(pool_table)]_vars

(* ---------------------------------------------------------------------- *)
(* C10                                                                    *)
(* ---------------------------------------------------------------------- *)
\* C10: has_force() is true exactly when the engine reports some ball's body
\* of the world active; a handle without a body is never reported active.
C10_HasForce ==
  /\ has_force(pool_table) <=> TableRolling(pool_table)
  /\ \A h \in Handles \ Present(pool_table) : ~pool_table.bodies[h].active

\* the white ball awaits its respawn, only the first yellow ball is active
\* and has_force() is true
C10_Witness ==
  /\ pool_table.white_ball_handle = None
  /\ {h \in Handles : pool_table.bodies[h].active} = {YellowRack[1]}
  /\ has_force(pool_table)


(* ---------------------------------------------------------------------- *)
(* C11                                                                    *)
(* ---------------------------------------------------------------------- *)
\* every in-play ball's velocity is exactly the zero vector
AllAtZero(t) == \A h \in SlotHandles(t) : HasBody(t, h) => t.bodies[h].vel = Zero

\* C11: at the end of every tick, has_force() is false if and only if every
\* in-play ball's velocity is exactly the zero vector.
C11_RestIffZeroVelocity ==
  [][IsTick => (~has_force(pool_table') <=> AllAtZero(pool_table'))]_vars

(* ---------------------------------------------------------------------- *)
(* C15                                                                    *)
(* ---------------------------------------------------------------------- *)
\* the tables that may enter the rest stabilizer in a step from table t to
\* table t2: step() up to its has_force call, on each engine report of
\* RestOutcomes on which step() gives t2
EnteringRest(t, t2) ==
  {t3 \in {BeforeRest(t, o, t2.contact_events) :
             o \in {r \in RestOutcomes(t) :
                      /\ \A h \in DOMAIN r : HasBody(t2, h) => t2.bodies[h].active = r[h][1]
                      /\ \A h \in RestBalls(t) \ DOMAIN r :
                           HasBody(t2, h) => ~t2.bodies[h].active}} :
     t2 = AfterRest(t3)}

\* C15: when the rest stabilizer runs in a step, an inactive in-play ball
\* with a nonzero velocity entering it has velocity (0, 0) after the step if
\* both |vx| and |vy| were below 150, and keeps its velocity if one of them
\* was 150 or more; a ball at velocity zero keeps its body as it was.
C15_Thresholding ==
  [][IsTick =>
       \A t3 \in EnteringRest(pool_table, pool_table') :
          has_force(t3) =>
            \A h \in SlotHandles(t3) :
              LET v == t3.bodies[h].vel
                  after == pool_table'.bodies[h]
              IN ~t3.bodies[h].active =>
                   /\ (v # Zero /\ Abs(v[1]) < 150 /\ Abs(v[2]) < 150) => after.vel = Zero
                   /\ (Abs(v[1]) >= 150 \/ Abs(v[2]) >= 150) => after.vel = v
                   /\ v = Zero => after = t3.bodies[h]]_vars

\* a step has ended in which the drag acted on an inactive ball with the
\* residual velocity (120, 40), which is now at (0, 0), next to a rolling ball
C15_Witness ==
  /\ pc = "input"
  /\ \E h, g \in SlotHandles(pool_table) :
       /\ ~pool_table.bodies[h].active
       /\ pool_table.bodies[h].vel = Zero
       /\ pool_table.bodies[h].force = DragForce(SlowVel)
       /\ pool_table.bodies[g].active
       /\ pool_table.bodies[g].vel = RollVel

(* ---------------------------------------------------------------------- *)
(* C20                                                                    *)
(* ---------------------------------------------------------------------- *)
\* C20: the rest stabilizer changes the velocity of inactive balls only: an
\* in-play ball the engine reports active has, after the step, the velocity
\* it had entering the stabilizer.
C20_ActiveBallsKeepVelocity ==
  [][IsTick =>
       \A t3 \in EnteringRest(pool_table, pool_table') :
         \A h \in SlotHandles(t3) :
           t3.bodies[h].active => pool_table'.bodies[h].vel = t3.bodies[h].vel]_vars

(* ---------------------------------------------------------------------- *)
(* C12                                                                    *)
(* ---------------------------------------------------------------------- *)
\* the step at hand is respawn_white_ball returning: between two updates, it
\* changes the table and leaves the eight, red and yellow slots alone
IsRespawn ==
  /\ pc = "idle" /\ pc' = "idle" /\ panicked' = "none"
  /\ pool_table' # pool_table
  /\ pool_table'.ball_8_handle = pool_table.ball_8_handle
  /\ pool_table'.red_balls_handles = pool_table.red_balls_handles
  /\ pool_table'.yellow_balls_handles = pool_table.yellow_balls_handles

\* C12: respawn_white_ball returns only when the white ball awaited its
\* respawn; with the white ball in play it fails, so it adds no second white
\* body and does not replace the white ball's handle.
C12_RespawnOnlyWhenAwaiting ==
  [][IsRespawn => pool_table.white_ball_handle = None]_vars

(* ---------------------------------------------------------------------- *)
(* C17                                                                    *)
(* ---------------------------------------------------------------------- *)
\* C17: while ball bodies are in the world, no step spawns the rack: none
\* puts a new handle in the red or yellow slots, or adds more than the one
\* ball body of a respawn.
C17_NoSecondRack ==
  [][BallBodies(pool_table) # {} =>
       /\ Range(pool_table'.red_balls_handles) \subseteq Range(pool_table.red_balls_handles)
       /\ Range(pool_table'.yellow_balls_handles) \subseteq Range(pool_table.yellow_balls_handles)
       /\ Cardinality(BallBodies(pool_table') \ BallBodies(pool_table)) <= 1]_vars

(* ---------------------------------------------------------------------- *)
(* C13                                                                    *)
(* ---------------------------------------------------------------------- *)
\* no handle is in two in-play slots, or twice in one
NoSharedHandle(t) ==
  \A i, j \in 1..Len(SlotSeq(t)) : i # j => SlotSeq(t)[i] # SlotSeq(t)[j]

\* C13: in every reachable state no two in-play balls share a handle, and a
\* handle that enters an in-play slot held no body just before; if it is one
\* of the handles issued at setup, it is recorded as dropped, which is how
\* drop_ball leaves a handle whose body it removed.
C13_OneBallPerHandle ==
  /\ []NoSharedHandle(pool_table)
  /\ [][\A h \in SlotHandles(pool_table') \ SlotHandles(pool_table) :
          /\ ~HasBody(pool_table, h)
          /\ h \in 1..(NUM_BALLS + NUM_HOLES)
               => BagIn(h, pool_table.dropped_balls_handles)]_vars

\* the white ball is in play on the handle a removed hole had
C13_Witness ==
  /\ pc = "idle"
  /\ pool_table.white_ball_handle = PocketB
  /\ IsBall(pool_table, PocketB)
  /\ NoSharedHandle(pool_table)

(* ---------------------------------------------------------------------- *)
(* C14                                                                    *)
(* ---------------------------------------------------------------------- *)
\* C14: only PoolTable::step creates or removes a body or changes a ball's
\* slot: a step of draw or of the keyboard part of update leaves the
\* registry and the set of bodies as they were.
C14_OnlyTicksChangeRegistry ==
  [][~IsTick => RegistryView(pool_table') = RegistryView(pool_table)]_vars

(* ---------------------------------------------------------------------- *)
(* C16                                                                    *)
(* ---------------------------------------------------------------------- *)
\* one white, one eight, seven red and seven yellow balls in play on
\* pairwise distinct handles with a ball's body each, and nothing dropped
RackComplete(t) ==
  /\ t.white_ball_handle # None
  /\ t.ball_8_handle # None
  /\ Len(t.red_balls_handles) = 7
  /\ Len(t.yellow_balls_handles) = 7
  /\ NoSharedHandle(t)
  /\ Cardinality(SlotHandles(t)) = 16
  /\ \A h \in SlotHandles(t) : IsBall(t, h)
  /\ BallBodies(t) = SlotHandles(t)
  /\ t.dropped_balls_handles = EmptyBag
  /\ t.white_ball_handle_dropped = None

\* C16: the table after setup holds the complete rack: one white, one eight,
\* seven red and seven yellow balls, all in play on pairwise distinct
\* handles, no ball dropped and no white ball awaiting its respawn.
C16_RackAfterSetup ==
  pool_table = InitialTable => RackComplete(pool_table)

\* the program has just been set up
C16_Witness ==
  /\ pool_table = InitialTable
  /\ cane_force = CANE_FORCE_INIT /\ keys_down = {} /\ pc = "idle"
  /\ Cardinality(BallBodies(pool_table)) = NUM_BALLS

(* ---------------------------------------------------------------------- *)
(* C18                                                                    *)
(* ---------------------------------------------------------------------- *)
\* C18: a step of PoolTable::step is the engine's step, then the drag, then
\* the contact events and the drops, then the rest stabilizer, each on the
\* table the one before left: the drag force on every ball in play after the
\* step is the one of the velocity the engine reported, not of the
\* stabilized one.  The keyboard is read only in the step after it:
\* cane_force and the keys are untouched while pc = "idle".
C18_PhaseOrder ==
  [][/\ IsTick =>
          \E o \in RestOutcomes(pool_table) :
            \E t1 \in {AfterWorldStep(pool_table, o, pool_table'.contact_events)} :
              \E t3 \in {AfterContacts(AfterDrag(t1))} :
                /\ pool_table' = AfterRest(t3)
                /\ \A h \in SlotHandles(pool_table') :
                     pool_table'.bodies[h].force = DragForce(t1.bodies[h].vel)
     /\ pc = "idle" => (cane_force' = cane_force /\ keys_down' = keys_down)]_vars

\* a step has ended that pocketed the white ball and left the sleeping eight
\* ball its residual velocity, with the drag force of that velocity
C18_Witness ==
  /\ pc = "input"
  /\ pool_table.contact_events # << >>
  /\ pool_table.white_ball_handle = None
  /\ pool_table.ball_8_handle = EightRack
  /\ ~pool_table.bodies[EightRack].active
  /\ pool_table.bodies[EightRack].vel = SlowVel
  /\ pool_table.bodies[EightRack].force = DragForce(SlowVel)

C21_DragOncePerBallInPlay ==
  [][IsTick =>
       \E o \in RestOutcomes(pool_table) :
         \E t1 \in {AfterWorldStep(pool_table, o, pool_table'.contact_events)} :
           /\ \A h \in SlotHandles(t1) :
                HasBody(pool_table', h) =>
                  /\ pool_table'.bodies[h].active = t1.bodies[h].active
                  /\ pool_table'.bodies[h].vel \in {t1.bodies[h].vel, Zero}
                  /\ pool_table'.bodies[h].force = DragForce(t1.bodies[h].vel)
                  /\ t1.bodies[h].vel = Zero =>
                       /\ pool_table'.bodies[h].force = Zero
                       /\ pool_table'.bodies[h].vel = Zero
           /\ \A h \in DOMAIN pool_table'.bodies \ SlotHandles(t1) :
                pool_table'.bodies[h].force = Zero]_vars

\* a step has ended with the white ball pocketed and awaiting its respawn,
\* the eight ball rolling under the drag force of its velocity and the first
\* red ball at rest with no force on it
C21_Witness ==
  /\ pc = "input"
  /\ pool_table.white_ball_handle = None
  /\ pool_table.bodies[pool_table.white_ball_handle_dropped] = NoBody
  /\ pool_table.ball_8_handle = EightRack
  /\ pool_table.bodies[EightRack].vel = RollVel
  /\ pool_table.bodies[EightRack].force = DragForce(RollVel)
  /\ Contains(pool_table.red_balls_handles, RedRack[1])
  /\ pool_table.bodies[RedRack[1]].vel = Zero
  /\ pool_table.bodies[RedRack[1]].force = Zero

(* ---------------------------------------------------------------------- *)
(* C22                                                                    *)
(* ---------------------------------------------------------------------- *)
\* C22: cane_force is within 0..MAX_POWER in every reachable state, whatever
\* the Down, Up and Return keys did.  A shoot request made with no ball
\* active that does not abort is accepted: the power it uses, cane_force
\* after the power keys of the same update, is within 0..MAX_POWER, the white
\* ball gets the velocity of that power and cane_force is back at 5.  A
\* shoot request made with a ball active is rejected: the table is unchanged
\* and cane_force is what the power keys of the same update alone make it,
\* so with Return alone it is unchanged.
C22_PowerInRange ==
  /\ [](cane_force \in 0..MAX_POWER)
  /\ [][(IsShootRequest /\ panicked' = "none") =>
          \A f \in {KeyedForce(cane_force, keys_down')} :
            IF ~has_force(pool_table)
              THEN /\ f \in 0..MAX_POWER
                   /\ pool_table'.bodies[pool_table.white_ball_handle].vel = ShotVelocity(f)
                   /\ cane_force' = CANE_FORCE_INIT
              ELSE /\ pool_table' = pool_table
                   /\ cane_force' = KeyedForce(cane_force, keys_down' \ {Key_Return})
                   /\ keys_down' = {Key_Return} => cane_force' = cane_force]_vars

\* a shot at full power has just been accepted: Return and Down were down,
\* the white ball has the velocity of MAX_POWER and cane_force is back at 5
C22_Witness ==
  /\ pc = "idle"
  /\ keys_down = {Key_Return, Key_Down}
  /\ cane_force = CANE_FORCE_INIT
  /\ pool_table.white_ball_handle # None
  /\ pool_table.bodies[pool_table.white_ball_handle].vel = ShotVelocity(MAX_POWER)
  /\ ShotVelocity(MAX_POWER)[1] > ShotVelocity(MAX_POWER - CANE_FORCE_STEP)[1]

(* ---------------------------------------------------------------------- *)
(* C23                                                                    *)
(* ---------------------------------------------------------------------- *)
\* C23: in every reachable state no handle of the dropped vector is in an
\* in-play slot, also after a respawn on a handle that was dropped before;
\* and a step that reports a contact-started event between the white ball in
\* play and a hole pockets the white ball: drop_ball does not take its early
\* return for it, so after the step the white ball awaits its respawn, its
\* handle is in the dropped vector once more and holds no body.
C23_DroppedDisjointFromInPlay ==
  /\ [](\A h \in SlotHandles(pool_table) : ~BagIn(h, pool_table.dropped_balls_handles))
  /\ [][(/\ IsTick
          /\ pool_table.white_ball_handle # None
          /\ \E i \in 1..Len(pool_table'.contact_events) :
               PocketContactOf(pool_table, pool_table'.contact_events[i],
                               pool_table.white_ball_handle))
           => (/\ drop_ball(pool_table, pool_table.white_ball_handle) # pool_table
               /\ pool_table'.white_ball_handle = None
               /\ BagIn(pool_table.white_ball_handle, pool_table'.dropped_balls_handles)
               /\ ~HasBody(pool_table', pool_table.white_ball_handle))]_vars

(* ---------------------------------------------------------------------- *)
(* C24                                                                    *)
(* ---------------------------------------------------------------------- *)
\* C24: the white ball is respawned only with the table at rest.  A step that
\* puts the white ball back in its slot or adds a ball's body to the world is
\* a step of draw (between two updates) taken with has_force() false and no
\* ball of the world active; while has_force() is true, a white ball awaiting
\* its respawn keeps awaiting it and no ball's body is added.
C24_RespawnOnlyAtRest ==
  [][/\ (\/ (pool_table.white_ball_handle = None /\ pool_table'.white_ball_handle # None)
          \/ BallBodies(pool_table') \ BallBodies(pool_table) # {})
         => (/\ pc = "idle" /\ pc' = "idle"
             /\ ~has_force(pool_table)
             /\ ~TableRolling(pool_table))
     /\ (has_force(pool_table) /\ pool_table.white_ball_handle = None)
         => (/\ pool_table'.white_ball_handle = None
             /\ pool_table'.white_ball_handle_dropped = pool_table.white_ball_handle_dropped
             /\ BallBodies(pool_table') \subseteq BallBodies(pool_table))]_vars

\* between two updates the white ball awaits its respawn, without a body,
\* while the eight ball rolls: draw finds has_force() true
C24_Witness ==
  /\ pc = "idle"
  /\ pool_table.white_ball_handle = None
  /\ pool_table.white_ball_handle_dropped = WhiteRack
  /\ ~HasBody(pool_table, WhiteRack)
  /\ pool_table.ball_8_handle = EightRack
  /\ pool_table.bodies[EightRack].active
  /\ pool_table.bodies[EightRack].vel = RollVel
  /\ has_force(pool_table)

(* ---------------------------------------------------------------------- *)
(* C25                                                                    *)
(* ---------------------------------------------------------------------- *)
\* C25: a pocketed white ball returns to play.  In a run in which the
\* program keeps running (draw keeps being called) and from some point on no
\* ball is active while the white ball awaits its respawn, a white ball out
\* of its slot is eventually back in it; and every step of draw taken with
\* has_force() false that does not abort leaves the white ball in its slot.
C25_WhiteReturns ==
  /\ ([]Running /\ <>[](pool_table.white_ball_handle = None => ~has_force(pool_table)))
       => ((pool_table.white_ball_handle = None) ~> (pool_table.white_ball_handle # None))
  /\ [][(/\ pc = "idle" /\ pc' = "idle" /\ panicked' = "none"
          /\ ~has_force(pool_table))
           => (/\ pool_table'.white_ball_handle # None
               /\ IsBall(pool_table', pool_table'.white_ball_handle))]_vars

\* the last step pocketed the white ball and draw has respawned it since, on
\* the handle it had: it is in play, its body at rest at the spawn point
C25_Witness ==
  /\ pc = "idle"
  /\ pool_table.contact_events = <<<<"Started", WhiteRack, PocketA>>>>
  /\ pool_table.white_ball_handle = WhiteRack
  /\ pool_table.white_ball_handle_dropped = None
  /\ pool_table.bodies[WhiteRack] = NewBody("ball", RespawnPoint)
  /\ ~has_force(pool_table)

====
